---- MODULE Spec2Model ----
(***************************************************************************)
(* The swap pipeline of plugin-lightlink: SwapAction.swap, getQuote,       *)
(* executeSwap and swapAction.handler.                                     *)
(*                                                                         *)
(* JavaScript runs each stretch of code between two awaits to completion,  *)
(* so every action below is one such stretch: it starts when the awaited   *)
(* promise settles and ends where the next network call is issued.         *)
(*                                                                         *)
(* Spec            one handler invocation after another (swapAction.handler*)
(*                 builds its own provider and SwapAction on every call).  *)
(* SpecConcurrent  NumSwaps callers of swap() on one SwapAction, that is   *)
(*                 on one wallet provider instance.                        *)
(***************************************************************************)
EXTENDS Integers, Sequences, FiniteSets, TLC

\* ------------------------------------------------------------ bounds
\* Callers of swap() on the shared SwapAction instance.
NumSwaps == 2
\* Handler invocations, one after another.
MaxHandlerCalls == 2
\* The quoter answers 0, QuoteStep, ..., MaxQuoteSteps * QuoteStep.
MaxQuoteSteps == 4
QuoteStep == 250000

\* ------------------------------------------------- program constants
\* BigInt(params.slippage * 10_000)
SlippageFactor == 10000
\* (quote.amountOut * slippageBP) / BigInt(100_000)
SlippageDivisor == 100000
\* the fee tier passed to getQuote and executeSwap
Fee == 3000

\* ------------------------------------------------------------ inputs
Swaps == 1..NumSwaps

\* keyof typeof lightlinkL2Chains; the rpcUrl keys of EvmPluginConfig name them.
SupportedChain == {"lightlink", "lightlinkTestnet"}
\* content.chain comes from the language model and is not checked by the handler.
ChainNames == SupportedChain \cup {"unknownChain"}
\* The chain a new provider starts on.
DefaultChain == "lightlink"

\* A number is the fraction <<n, d>> (d > 0); undefined is <<>>.
Undefined == <<>>
\* -0.01, 0, 0.00005, 0.0001, 0.01, 0.07, 0.5, 1, 2
Slippages ==
    {<<0 - 1, 100>>, <<0, 1>>, <<1, 20000>>, <<1, 10000>>, <<1, 100>>,
     <<7, 100>>, <<1, 2>>, <<1, 1>>, <<2, 1>>}
\* The callers of the shared SwapAction use these.
ConcurrentSlippages == {<<1, 100>>}

Quotes == {k * QuoteStep : k \in 0..MaxQuoteSteps}
ConcurrentQuotes == {QuoteStep}

Signer == "0xSigner"
TxHash == "0xTx"

\* --------------------------------------------------- pure functions
\* params.slippage * 10_000 as a binary64 product is an integer.  The product
\* of the fraction is exact for every member of Slippages but 0.07, where
\* binary64 gives 700.0000000000001; undefined * 10_000 is NaN.
ProductIsInteger(s) ==
    /\ s # Undefined
    /\ (s[1] * SlippageFactor) % s[2] = 0
    /\ s # <<7, 100>>

\* BigInt(x) throws a RangeError when x is not an integer.
BigIntThrows(s) == ~ProductIsInteger(s)

\* slippageBP = BigInt(params.slippage * 10_000), where it does not throw.
SlippageBP(s) == (s[1] * SlippageFactor) \div s[2]

\* (a * b) / d on bigints: the quotient truncates toward zero.  The product is
\* split at d so that no intermediate value leaves TLC's integers.
BigIntMulDiv(a, b, d) ==
    LET mag(x) == IF x < 0 THEN 0 - x ELSE x
        q == (a \div d) * mag(b) + ((a % d) * mag(b)) \div d
    IN  IF b < 0 THEN 0 - q ELSE q

\* minAmountOut = quote.amountOut - (quote.amountOut * slippageBP) / 100_000n
MinAmountOut(amountOut, slippageBP) ==
    amountOut - BigIntMulDiv(amountOut, slippageBP, SlippageDivisor)

\* decodeFunctionResult throws on data that is no (amountOut, sqrtPriceX96After,
\* initializedTicksCrossed, gasEstimate) tuple.
Decodable(data) == Len(data) = 4

\* getQuote's result: the outputs of quoteExactInputSingle by position.
DecodeQuote(data) ==
    [amountOut |-> data[1], sqrtPriceX96After |-> data[2],
     initializedTicksCrossed |-> data[3], gasEstimate |-> data[4]]

\* parseEther(params.amount): the amount in wei, as <<mantissa, exponent>>.
ParseEther(amount) == <<amount, 18>>

\* chain.contracts of the chain configuration of a chain.
ContractAddress(chain, contract) == <<contract, chain>>

\* Variant: only !receipt?.status, the status itself not looked at.
ReceiptFailedIgnoresRevert(receipt) == receipt = "absent"
\* !receipt?.status || receipt.status === "reverted"
ReceiptFailed(receipt) == receipt = "absent" \/ receipt = "reverted"

\* ------------------------------------------------------------- state
VARIABLES
    currentChain,   \* the provider's active chain
    accounts,       \* what the write client's getAddresses answers
    sw,             \* sw[i]: the locals of swap invocation i
    h               \* the handler invocation in progress

vars == <<currentChain, accounts, sw, h>>

NoCall == [op |-> "none", client |-> "none", to |-> <<>>, active |-> "none"]

NoParams ==
    [chain |-> "none", fromToken |-> "none", toToken |-> "none",
     amount |-> "none", slippage |-> Undefined]

IdleSwap ==
    [pc |-> "idle", params |-> NoParams,
     publicClient |-> "none", walletClient |-> "none", chain |-> "none",
     fromAddress |-> "unset", callStatus |-> "none", response |-> <<>>,
     quote |-> <<>>, minAmountOut |-> <<>>, sent |-> <<>>, tx |-> "none",
     receipt |-> "none", result |-> <<>>, error |-> <<>>,
     lastCall |-> NoCall, nCall |-> 0, nSend |-> 0, nWait |-> 0]

NoContent ==
    [chain |-> "none", inputToken |-> "none", outputToken |-> "none",
     amount |-> "none", slippage |-> Undefined]

IdleHandler ==
    [pc |-> "idle", callback |-> FALSE, content |-> NoContent,
     messages |-> <<>>, ret |-> "none", thrownBy |-> "none", nSwap |-> 0,
     calls |-> 0]

Init ==
    /\ currentChain = DefaultChain
    /\ accounts \in {<<>>, <<Signer>>}
    /\ sw = [i \in Swaps |-> IdleSwap]
    /\ h = IdleHandler

\* The first element of a list, as array destructuring gives it.
First(list) == IF Len(list) = 0 THEN "undefined" ELSE list[1]

Throw(s, name, message) ==
    [s EXCEPT !.pc = "threw", !.error = <<[name |-> name, message |-> message]>>]

\* A network call issued through the client of `client`, to contract `to`.
Call(op, client, to, active) ==
    [op |-> op, client |-> client, to |-> to, active |-> active]

\* ------------------------------------------- WalletProvider (accessors)
\* switchChain(chainName): the active chain after the call.
SwitchChain(chainName) == chainName
\* switchChain fails on a chain that is not registered.
SwitchChainThrows(chainName) == chainName \notin SupportedChain
\* getPublicClient / getWalletClient / getChainConfigs(chainName): the handle
\* of that chain.
GetPublicClient(chainName) == chainName
GetWalletClient(chainName) == chainName
GetChainConfigs(chainName) == chainName

\* --------------------------------------------------- SwapAction.swap
\* Variant: the provider is locked for the length of a swap.
MayEnterWhenAlone(i) ==
    sw[i].pc = "idle" /\ \A j \in Swaps : sw[j].pc \in {"idle", "returned", "threw"}
\* swap() starts with switchChain, whatever the other invocations are doing.
MayEnter(i) == sw[i].pc = "idle"

\* Lines 187-193: switchChain, the three accessors, and the first await.
Enter(i, params) ==
    IF SwitchChainThrows(params.chain)
    THEN /\ sw' = [sw EXCEPT ![i] =
                Throw([@ EXCEPT !.params = params],
                      "UnsupportedChainError", "Invalid chain name")]
         /\ UNCHANGED currentChain
    ELSE /\ currentChain' = SwitchChain(params.chain)
         /\ sw' = [sw EXCEPT ![i] =
                [@ EXCEPT !.pc = "getAddresses", !.params = params,
                          !.publicClient = GetPublicClient(params.chain),
                          !.walletClient = GetWalletClient(params.chain),
                          !.chain = GetChainConfigs(params.chain),
                          !.lastCall = Call("getAddresses",
                                            GetWalletClient(params.chain), <<>>,
                                            SwitchChain(params.chain))]]

\* Variant: the client and the quoter are looked up on the active chain when
\* the call is issued.
QuoterCallOnActiveChain(i) ==
    Call("call", GetPublicClient(currentChain),
         ContractAddress(GetChainConfigs(currentChain), "uniswapV3Quoter"),
         currentChain)
\* The read call of getQuote: through the public client swap() resolved, to
\* the quoter of the chain configuration swap() resolved.
QuoterCall(i) ==
    Call("call", sw[i].publicClient,
         ContractAddress(sw[i].chain, "uniswapV3Quoter"), currentChain)

\* Lines 193-207 and 385-403: getAddresses has answered; [fromAddress] is its
\* first element; getQuote encodes the call and issues it.
GetAddressesResolve(i) ==
    /\ sw[i].pc = "getAddresses"
    /\ sw' = [sw EXCEPT ![i] =
            [@ EXCEPT !.pc = "call", !.fromAddress = First(accounts),
                      !.callStatus = "pending", !.nCall = @ + 1,
                      !.lastCall = QuoterCall(i)]]
    /\ UNCHANGED <<currentChain, accounts, h>>

\* What the quoter's read call can answer: undecodable data, or the four outputs.
Responses(amounts) ==
    {<<>>} \cup {<<q, "sqrtPriceX96After", "initializedTicksCrossed", "gasEstimate">> :
                 q \in amounts}

\* Lines 405-424 and 209-225, 436-438: the read call has answered; getQuote
\* decodes it; swap() computes slippageBP and minAmountOut and calls executeSwap,
\* which asks the write client for its addresses.
CallResolve(i, amounts) ==
    /\ sw[i].pc = "call"
    /\ \E data \in Responses(amounts) :
         sw' = [sw EXCEPT ![i] =
            IF ~Decodable(data)
            THEN Throw([@ EXCEPT !.callStatus = "undecodable", !.response = data],
                       "AbiDecodingError", "Cannot decode the quoter's answer")
            ELSE IF BigIntThrows(sw[i].params.slippage)
            THEN Throw([@ EXCEPT !.callStatus = "resolved", !.response = data,
                                 !.quote = <<DecodeQuote(data)>>],
                       "RangeError", "The number cannot be converted to a BigInt")
            ELSE [@ EXCEPT !.pc = "getAddresses2", !.callStatus = "resolved",
                           !.response = data, !.quote = <<DecodeQuote(data)>>,
                           !.minAmountOut =
                               <<MinAmountOut(DecodeQuote(data).amountOut,
                                              SlippageBP(sw[i].params.slippage))>>,
                           !.lastCall = Call("getAddresses", sw[i].walletClient, <<>>,
                                             currentChain)]]
    /\ UNCHANGED <<currentChain, accounts, h>>

\* Variant: the rejection is swallowed and the swap goes on with no quote.
CallRejectContinue(i) ==
    /\ sw[i].pc = "call"
    /\ sw' = [sw EXCEPT ![i] =
            [@ EXCEPT !.pc = "getAddresses2", !.callStatus = "rejected",
                      !.minAmountOut = <<0>>,
                      !.lastCall = Call("getAddresses", sw[i].walletClient, <<>>,
                                        currentChain)]]
    /\ UNCHANGED <<currentChain, accounts, h>>
\* The read call reverts: client.call rejects, getQuote and swap() reject.
CallReject(i) ==
    /\ sw[i].pc = "call"
    /\ sw' = [sw EXCEPT ![i] =
            Throw([@ EXCEPT !.callStatus = "rejected"],
                  "CallExecutionError", "The quoter call reverted")]
    /\ UNCHANGED <<currentChain, accounts, h>>

\* Variant: the quoted amount is passed on, the slippage not applied.
AmountOutMinIsQuote(i) == sw[i].quote[1].amountOut
\* The amountOutMin argument swap() passes to executeSwap (line 223).
AmountOutMinArg(i) == sw[i].minAmountOut[1]

\* encodeAbiParameters of (recipient, amountIn, amountOutMin, path, payerIsUser).
SwapInputs(i, recipient) ==
    [recipient |-> recipient, amountIn |-> ParseEther(sw[i].params.amount),
     amountOutMin |-> AmountOutMinArg(i),
     path |-> <<sw[i].params.fromToken, Fee, sw[i].params.toToken>>,
     payerIsUser |-> TRUE]

\* An address and a uint256 are what the encoder is given.
WellTyped(inputs) == inputs.recipient # "undefined" /\ inputs.amountOutMin >= 0

\* The transaction executeSwap sends: chain, account, to, and the call data of
\* execute(commands, inputs) with the one command SWAP_EXACT_IN.
RouterTransaction(i, recipient) ==
    [chain |-> sw[i].chain, account |-> recipient,
     to |-> ContractAddress(sw[i].chain, "universalRouter"),
     commands |-> "0x00", inputs |-> <<SwapInputs(i, recipient)>>]

\* Lines 438-491: the write client has answered its addresses; executeSwap
\* encodes the router call and sends it.  What the encoder does with a value
\* that is no address or no uint256 is the library's: it throws or it encodes.
GetAddresses2Resolve(i) ==
    /\ sw[i].pc = "getAddresses2"
    /\ LET recipient == First(accounts)
       IN  \/ /\ ~WellTyped(SwapInputs(i, recipient))
              /\ sw' = [sw EXCEPT ![i] =
                     Throw(@, "AbiEncodingError", "Cannot encode the router call")]
           \/ sw' = [sw EXCEPT ![i] =
                  [@ EXCEPT !.pc = "sendTransaction",
                            !.sent = <<RouterTransaction(i, recipient)>>,
                            !.nSend = @ + 1,
                            !.lastCall = Call("sendTransaction", sw[i].walletClient,
                                              ContractAddress(sw[i].chain,
                                                              "universalRouter"),
                                              currentChain)]]
    /\ UNCHANGED <<currentChain, accounts, h>>

\* Lines 493 and 227-229: the transaction is accepted; swap() waits for its
\* receipt on the public client.
SendResolve(i) ==
    /\ sw[i].pc = "sendTransaction"
    /\ sw' = [sw EXCEPT ![i] =
            [@ EXCEPT !.pc = "waitForTransactionReceipt", !.tx = TxHash,
                      !.receipt = "pending", !.nWait = @ + 1,
                      !.lastCall = Call("waitForTransactionReceipt",
                                        sw[i].publicClient, <<>>, currentChain)]]
    /\ UNCHANGED <<currentChain, accounts, h>>

\* Variant: a failed submission is sent again.
SendRejectResubmit(i) ==
    /\ sw[i].pc = "sendTransaction"
    /\ sw[i].nSend < 3
    /\ sw' = [sw EXCEPT ![i] = [@ EXCEPT !.nSend = @ + 1]]
    /\ UNCHANGED <<currentChain, accounts, h>>
\* Signing or broadcast fails: sendTransaction, executeSwap and swap() reject.
SendReject(i) ==
    /\ sw[i].pc = "sendTransaction"
    /\ sw' = [sw EXCEPT ![i] =
            Throw(@, "TransactionExecutionError", "The transaction was not sent")]
    /\ UNCHANGED <<currentChain, accounts, h>>

\* The SwapTransaction swap() returns (lines 235-242).
SwapTransaction(s) ==
    [hash |-> s.tx, fromToken |-> s.params.fromToken, toToken |-> s.params.toToken,
     amountIn |-> ParseEther(s.params.amount), minAmountOut |-> s.minAmountOut[1],
     recipient |-> s.fromAddress]

\* Lines 227-243: the receipt wait resolves with a receipt or with none.
WaitResolve(i) ==
    /\ sw[i].pc = "waitForTransactionReceipt"
    /\ \E receipt \in {"absent", "success", "reverted"} :
         sw' = [sw EXCEPT ![i] =
            IF ReceiptFailed(receipt)
            THEN Throw([@ EXCEPT !.receipt = receipt], "Error", "Transaction failed")
            ELSE [@ EXCEPT !.pc = "returned", !.receipt = receipt,
                           !.result = <<SwapTransaction(sw[i])>>]]
    /\ UNCHANGED <<currentChain, accounts, h>>

\* The receipt wait rejects (the client gives up): swap() rejects.
WaitReject(i) ==
    /\ sw[i].pc = "waitForTransactionReceipt"
    /\ sw' = [sw EXCEPT ![i] =
            Throw([@ EXCEPT !.receipt = "rejected"],
                  "WaitForTransactionReceiptTimeoutError", "No receipt in time")]
    /\ UNCHANGED <<currentChain, accounts, h>>

\* A caller invokes swap() on the shared SwapAction.
SwapParams(chains, slippages) ==
    [chain : chains, fromToken : {"0xIn"}, toToken : {"0xOut"},
     amount : {"1.0"}, slippage : slippages]

SwapCall(i) ==
    /\ MayEnter(i)
    /\ \E params \in SwapParams(ChainNames, ConcurrentSlippages) : Enter(i, params)
    /\ UNCHANGED <<accounts, h>>

\* ------------------------------------------------ swapAction.handler
\* What generateObjectDeprecated can extract.
Contents ==
    [chain : ChainNames, inputToken : {"0xIn"}, outputToken : {"0xOut"},
     amount : {"1.0"}, slippage : Slippages \cup {Undefined}]

\* swapOptions (lines 271-277)
SwapOptions(content) ==
    [chain |-> content.chain, fromToken |-> content.inputToken,
     toToken |-> content.outputToken, amount |-> content.amount,
     slippage |-> content.slippage]

\* The handler is invoked, with a callback or without; it awaits
\* initWalletProvider (line 257).
HandlerCall ==
    /\ h.pc \in {"idle", "done"}
    /\ h.calls < MaxHandlerCalls
    /\ \E callback \in BOOLEAN :
         h' = [IdleHandler EXCEPT !.pc = "initWalletProvider",
                                  !.callback = callback, !.calls = h.calls + 1]
    /\ UNCHANGED <<currentChain, accounts, sw>>

\* Lines 257-269: a new provider and a new SwapAction; the handler awaits the
\* extraction of the parameters.
InitResolve ==
    /\ h.pc = "initWalletProvider"
    /\ h' = [h EXCEPT !.pc = "generateObject"]
    /\ currentChain' = DefaultChain
    /\ sw' = [sw EXCEPT ![1] = IdleSwap]
    /\ UNCHANGED accounts

\* initWalletProvider throws outside the try block: the handler rejects.
InitReject ==
    /\ h.pc = "initWalletProvider"
    /\ h' = [h EXCEPT !.pc = "done", !.ret = "rejected",
                      !.thrownBy = "initWalletProvider"]
    /\ UNCHANGED <<currentChain, accounts, sw>>

\* Lines 265-280: the content is extracted, swapOptions is built and
\* action.swap(swapOptions) is called inside the try block.
ExtractResolve ==
    /\ h.pc = "generateObject"
    /\ MayEnter(1)
    /\ \E content \in Contents :
         /\ h' = [h EXCEPT !.pc = "swap", !.content = content, !.nSwap = @ + 1]
         /\ Enter(1, SwapOptions(content))
    /\ UNCHANGED accounts

\* generateObjectDeprecated throws outside the try block: the handler rejects.
ExtractReject ==
    /\ h.pc = "generateObject"
    /\ h' = [h EXCEPT !.pc = "done", !.ret = "rejected",
                      !.thrownBy = "generateObjectDeprecated"]
    /\ UNCHANGED <<currentChain, accounts, sw>>

\* The callback is optional.
Report(message) == IF h.callback THEN Append(h.messages, message) ELSE h.messages

\* Lines 280-292: swap() returned.
HandlerReturn ==
    /\ h.pc = "swap"
    /\ sw[1].pc = "returned"
    /\ h' = [h EXCEPT !.pc = "done", !.ret = "true",
                      !.messages = Report(
                          [text |-> <<"Successfully swap", sw[1].params.amount,
                                      sw[1].params.fromToken, sw[1].params.toToken,
                                      sw[1].result[1].hash>>,
                           content |-> [success |-> TRUE,
                                        hash |-> sw[1].result[1].hash,
                                        recipient |-> sw[1].result[1].recipient,
                                        chain |-> h.content.chain]])]
    /\ UNCHANGED <<currentChain, accounts, sw>>

\* Lines 293-299: swap() threw.
HandlerCatch ==
    /\ h.pc = "swap"
    /\ sw[1].pc = "threw"
    /\ h' = [h EXCEPT !.pc = "done", !.ret = "false", !.thrownBy = "swap",
                      !.messages = Report(
                          [text |-> <<"Error:", sw[1].error[1].message>>])]
    /\ UNCHANGED <<currentChain, accounts, sw>>

\* ---------------------------------------------------- specifications
Next ==
    \/ HandlerCall
    \/ InitResolve
    \/ InitReject
    \/ ExtractResolve
    \/ ExtractReject
    \/ GetAddressesResolve(1)
    \/ CallResolve(1, Quotes)
    \/ CallReject(1)
    \/ GetAddresses2Resolve(1)
    \/ SendResolve(1)
    \/ SendReject(1)
    \/ WaitResolve(1)
    \/ WaitReject(1)
    \/ HandlerReturn
    \/ HandlerCatch

Spec == Init /\ [][Next]_vars

NextConcurrent ==
    \E i \in Swaps :
        \/ SwapCall(i)
        \/ GetAddressesResolve(i)
        \/ CallResolve(i, ConcurrentQuotes)
        \/ CallReject(i)
        \/ GetAddresses2Resolve(i)
        \/ SendResolve(i)
        \/ SendReject(i)
        \/ WaitResolve(i)
        \/ WaitReject(i)

SpecConcurrent == Init /\ [][NextConcurrent]_vars

\* ------------------------------------------------------------ claims
InFlight(i) ==
    sw[i].pc \in {"getAddresses", "call", "getAddresses2", "sendTransaction",
                  "waitForTransactionReceipt"}

\* 0 <= s <= 1
InUnitRange(s) == s # Undefined /\ 0 <= s[1] /\ s[1] <= s[2]
\* s < 0 or s > 1
OutOfRange(s) == s # Undefined /\ (s[1] < 0 \/ s[1] > s[2])
\* round(s * 10000) for s >= 0, halves up
RoundedBP(s) == (2 * s[1] * SlippageFactor + s[2]) \div (2 * s[2])
\* swap() is past its step 2 once the quote is there.
QuoteFetched(i) == sw[i].callStatus = "resolved"

\* C1: for every slippage s in [0, 1] and quoted amount q >= 0, once the quote
\* is fetched the computed minimum output is
\* q - floor(q * round(s * 10000) / 100000), it lies in 0..q, and it is q for
\* s = 0.
C1_MinAmountOutFormula ==
    \A i \in Swaps :
        QuoteFetched(i) /\ InUnitRange(sw[i].params.slippage) =>
            LET q == sw[i].quote[1].amountOut
                s == sw[i].params.slippage
                m == q - BigIntMulDiv(q, RoundedBP(s), SlippageDivisor)
            IN  /\ sw[i].minAmountOut = <<m>>
                /\ 0 <= m /\ m <= q
                /\ (s[1] = 0 => m = q)

\* C1, restricted to the slippages whose product with 10000 is an integer:
\* there the code computes the stated minimum output.
C1_FormulaOnIntegralProducts ==
    \A i \in Swaps :
        /\ QuoteFetched(i)
        /\ InUnitRange(sw[i].params.slippage)
        /\ ProductIsInteger(sw[i].params.slippage)
        => LET q == sw[i].quote[1].amountOut
               s == sw[i].params.slippage
               m == q - BigIntMulDiv(q, RoundedBP(s), SlippageDivisor)
           IN  /\ sw[i].minAmountOut = <<m>>
               /\ 0 <= m /\ m <= q
               /\ (s[1] = 0 => m = q)

\* C1, where the code agrees: the example q = 1_000_000, s = 0.01 gives 999_000.
C1_Example ==
    \E i \in Swaps :
        /\ QuoteFetched(i)
        /\ sw[i].params.slippage = <<1, 100>>
        /\ sw[i].quote[1].amountOut = 1000000
        /\ sw[i].minAmountOut = <<999000>>

\* C1, where the code departs: s in [0, 1], the quote is fetched, and swap()
\* has thrown a RangeError instead of computing a minimum output.
C1_RangeErrorInRange ==
    \E i \in Swaps :
        /\ QuoteFetched(i)
        /\ InUnitRange(sw[i].params.slippage)
        /\ sw[i].pc = "threw"
        /\ sw[i].error[1].name = "RangeError"
        /\ sw[i].minAmountOut = <<>>

\* C2: a swap called with slippage s < 0 or s > 1 has failed with
\* InvalidParameterError and has issued no network call: no address fetch, no
\* quoter call, no transaction, no receipt wait.
C2_OutOfRangeSlippageRejected ==
    \A i \in Swaps :
        /\ sw[i].pc # "idle"
        /\ sw[i].params.chain \in SupportedChain
        /\ OutOfRange(sw[i].params.slippage)
        => /\ sw[i].pc = "threw"
           /\ sw[i].error[1].name = "InvalidParameterError"
           /\ sw[i].lastCall = NoCall
           /\ sw[i].nCall = 0 /\ sw[i].nSend = 0 /\ sw[i].nWait = 0

\* C2, the divergence: an out-of-range slippage and a transaction submitted.
C2_OutOfRangeSubmitted ==
    \E i \in Swaps :
        /\ OutOfRange(sw[i].params.slippage)
        /\ sw[i].nSend = 1
        /\ sw[i].pc = "returned"

\* C3: when the quoter call reverts or its answer cannot be decoded, swap()
\* has failed without submitting a transaction and without waiting for a
\* receipt.
C3_QuoteFailureAbortsBeforeWrite ==
    \A i \in Swaps :
        sw[i].callStatus \in {"rejected", "undecodable"} =>
            /\ sw[i].pc = "threw"
            /\ sw[i].nSend = 0 /\ sw[i].sent = <<>> /\ sw[i].tx = "none"
            /\ sw[i].nWait = 0 /\ sw[i].receipt = "none"
            /\ sw[i].result = <<>>

C3_QuoteFailed ==
    \E i \in Swaps :
        /\ sw[i].callStatus = "rejected"
        /\ sw[i].pc = "threw"
        /\ sw[i].nCall = 1

\* C4 as stated: after submission, a receipt that is reverted or absent makes
\* swap() fail with ExecutionRevertedError and return nothing; a
\* SwapTransaction is returned only on a receipt that is present and not
\* reverted.
C4_RevertFailsWithExecutionRevertedError ==
    \A i \in Swaps :
        /\ sw[i].receipt \in {"reverted", "absent"} =>
               /\ sw[i].pc = "threw"
               /\ sw[i].error[1].name = "ExecutionRevertedError"
               /\ sw[i].result = <<>>
        /\ sw[i].result # <<>> => sw[i].nSend = 1 /\ sw[i].receipt = "success"

\* C4 as amended: after submission, a receipt that is reverted or absent makes
\* swap() fail with a plain Error whose message is "Transaction failed" and
\* return nothing; a SwapTransaction is returned only on a receipt that is
\* present and not reverted.
C4_RevertFailsWithTransactionFailed ==
    \A i \in Swaps :
        /\ sw[i].receipt \in {"reverted", "absent"} =>
               /\ sw[i].pc = "threw"
               /\ sw[i].error = <<[name |-> "Error", message |-> "Transaction failed"]>>
               /\ sw[i].result = <<>>
        /\ sw[i].result # <<>> => sw[i].nSend = 1 /\ sw[i].receipt = "success"

C4_Reverted ==
    \E i \in Swaps :
        /\ sw[i].nSend = 1
        /\ sw[i].receipt = "reverted"
        /\ sw[i].pc = "threw"

\* C5: with no signer address, swap() fails with NoAccountError before a quote
\* is fetched and before a transaction is built, and no router call carries
\* an undefined recipient or sender.
C5_NoAccountFailsBeforeQuote ==
    \A i \in Swaps :
        /\ accounts = <<>> =>
               /\ sw[i].nCall = 0 /\ sw[i].sent = <<>> /\ sw[i].nSend = 0
               /\ sw[i].pc \notin {"idle", "getAddresses"} =>
                      sw[i].pc = "threw" /\ sw[i].error[1].name = "NoAccountError"
        /\ sw[i].sent # <<>> =>
               /\ sw[i].sent[1].account # "undefined"
               /\ sw[i].sent[1].inputs[1].recipient # "undefined"

\* C5, the divergence: no signer address, and the quoter has been called.
C5_QuotedWithoutAccount ==
    \E i \in Swaps :
        /\ accounts = <<>>
        /\ sw[i].fromAddress = "undefined"
        /\ sw[i].nCall = 1
        /\ sw[i].callStatus = "resolved"

\* C6: the amountOutMin in the router call is the minimum output computed from
\* the quoter's answer of this invocation and the caller's slippage, the
\* returned SwapTransaction carries the same value, and the parameters hold no
\* minimum output.
C6_MinAmountOutFromFreshQuote ==
    \A i \in Swaps :
        /\ sw[i].sent # <<>> =>
               /\ sw[i].callStatus = "resolved"
               /\ sw[i].sent[1].inputs[1].amountOutMin =
                      MinAmountOut(sw[i].response[1],
                                   SlippageBP(sw[i].params.slippage))
        /\ sw[i].result # <<>> =>
               /\ sw[i].sent # <<>>
               /\ sw[i].result[1].minAmountOut = sw[i].sent[1].inputs[1].amountOutMin
        /\ DOMAIN sw[i].params = {"chain", "fromToken", "toToken", "amount", "slippage"}

\* The second handler invocation returns the example's 999_000.
C6_SecondSwapReturned ==
    /\ h.calls = 2
    /\ sw[1].result # <<>>
    /\ sw[1].response[1] = 1000000
    /\ sw[1].result[1].minAmountOut = 999000
    /\ sw[1].sent[1].inputs[1].amountOutMin = 999000

\* C7: a handler invocation ends by returning true after reporting the
\* confirmation and {success, hash, recipient, chain}, or by returning false
\* after reporting the error text; it never throws, wherever the error arose.
C7_HandlerReportsEveryError ==
    h.pc = "done" =>
        /\ h.ret \in {"true", "false"}
        /\ h.ret = "true" /\ h.callback =>
               /\ Len(h.messages) = 1
               /\ h.messages[1].content =
                      [success |-> TRUE, hash |-> sw[1].result[1].hash,
                       recipient |-> sw[1].result[1].recipient,
                       chain |-> h.content.chain]
        /\ h.ret = "false" /\ h.callback =>
               h.messages = <<[text |-> <<"Error:", sw[1].error[1].message>>]>>

\* C7, the divergence: the handler has thrown and reported nothing.
C7_HandlerThrew ==
    /\ h.pc = "done"
    /\ h.callback
    /\ h.ret = "rejected"
    /\ h.thrownBy = "generateObjectDeprecated"
    /\ h.messages = <<>>

\* C8: one swap invocation calls the quoter at most once, submits at most one
\* transaction and waits for at most one receipt, one handler invocation calls
\* swap() at most once, and an invocation that has failed issues no further
\* network call.
C8_NoRetry ==
    /\ [](/\ h.nSwap <= 1
          /\ \A i \in Swaps :
                 /\ sw[i].nCall <= 1 /\ sw[i].nSend <= 1 /\ sw[i].nWait <= 1
                 /\ sw[i].nWait <= sw[i].nSend /\ sw[i].nSend <= sw[i].nCall)
    /\ [][\A i \in Swaps :
              sw[i].pc = "threw" /\ sw'[i].pc # "idle" =>
                  /\ sw'[i].pc = "threw"
                  /\ sw'[i].lastCall = sw[i].lastCall
                  /\ sw'[i].nCall = sw[i].nCall
                  /\ sw'[i].nSend = sw[i].nSend
                  /\ sw'[i].nWait = sw[i].nWait]_vars

C8_FailedAfterSubmission ==
    /\ h.pc = "done"
    /\ h.ret = "false"
    /\ h.nSwap = 1
    /\ sw[1].pc = "threw"
    /\ sw[1].nCall = 1 /\ sw[1].nSend = 1 /\ sw[1].nWait = 1

\* C9: nothing guards the active chain: whenever one swap is in flight and
\* another caller has not entered yet, that caller can enter and leave the
\* active chain different from the chain of the swap still in flight.
C9_ActiveChainRace ==
    \A i, j \in Swaps :
        i # j /\ InFlight(i) /\ sw[j].pc = "idle" =>
            ENABLED (/\ SwapCall(j)
                     /\ InFlight(i)'
                     /\ currentChain' # sw'[i].params.chain)

C9_RaceObserved ==
    \E i, j \in Swaps :
        /\ i # j
        /\ InFlight(i) /\ InFlight(j)
        /\ currentChain # sw[i].params.chain
        /\ currentChain = sw[j].params.chain

\* C10: every network call of a swap goes to the clients of its own
\* params.chain, the quoter call to that chain's quoter and the transaction to
\* that chain's router, whatever the active chain is when the call is issued.
C10_CallsStayOnOwnChain ==
    \A i \in Swaps :
        /\ sw[i].lastCall.op # "none" => sw[i].lastCall.client = sw[i].params.chain
        /\ sw[i].lastCall.op = "call" =>
               sw[i].lastCall.to = ContractAddress(sw[i].params.chain, "uniswapV3Quoter")
        /\ sw[i].lastCall.op = "sendTransaction" =>
               sw[i].lastCall.to = ContractAddress(sw[i].params.chain, "universalRouter")
        /\ sw[i].sent # <<>> =>
               /\ sw[i].sent[1].chain = sw[i].params.chain
               /\ sw[i].sent[1].to = ContractAddress(sw[i].params.chain, "universalRouter")

\* A quoter call issued while the active chain is another swap's.
C10_CallUnderForeignChain ==
    \E i \in Swaps :
        /\ sw[i].lastCall.op = "call"
        /\ sw[i].lastCall.active # sw[i].params.chain
        /\ sw[i].lastCall.client = sw[i].params.chain

====
